---- MODULE Spec2Model ----
(***************************************************************************)
(* BurstBuilder::run (src/src/lib.rs): provisioning, spot request          *)
(* submission, resolution polling, the scope guard that terminates the     *)
(* instances, request cancellation, readiness polling, parallel setup and  *)
(* the caller's callback, together with the EC2 control plane the run      *)
(* talks to and the background task the guard spawns.                      *)
(***************************************************************************)
EXTENDS Integers, Sequences, FiniteSets, TLC

\* Largest instance count a machine set asks for.
MaxCount == 2
\* Largest number of terminate calls the count of them is kept for; the task
\* itself goes on calling.
MaxTermCalls == 3
\* Number of TCP connection attempts for which an address's answer is fixed.
MaxProbe == 6
\* The retry counter's limit in Session::connect (`i <= 3`).
RetryLimit == 3

\* Names of the machine sets a plan may hold, in a fixed enumeration order.
GroupOrder == <<"leader", "workers">>
GroupNames == {GroupOrder[n] : n \in DOMAIN GroupOrder}

\* Option::None and Option::Some of the rusoto records.
None == << >>
Some(x) == <<x>>

\* Identifiers handed out by the control plane: the k-th spot request of
\* machine set g, and the instance that fulfils it.
Sir(g, k) == <<"sir", g, k>>
Iid(r) == <<"i", r[2], r[3]>>
AllSirSeq ==
    [n \in 1..(Len(GroupOrder) * MaxCount) |->
        Sir(GroupOrder[((n - 1) \div MaxCount) + 1], ((n - 1) % MaxCount) + 1)]
AllIidSeq == [n \in DOMAIN AllSirSeq |-> Iid(AllSirSeq[n])]

Fields == {"instance_id", "instance_type", "private_ip", "public_dns", "public_ip"}

VARIABLES
    descriptors,    \* self.descriptors: machine set name -> requested number
    pc,             \* position of run
    phases,         \* the phases run has entered, in order
    result,         \* what run returned
    todo,           \* machine sets the submission loop has not visited yet
    setup_fns,      \* keys of setup_fns
    id_to_name,     \* request id / instance id -> machine set name
    spot_req_ids,   \* request ids collected from the submission responses
    envReq,         \* control plane: state of every spot request it created
    resolved,       \* the resolution loop has left through its break
    finalResp,      \* the describe response the resolution loop left on
    instances,      \* instance ids collected at loop exit
    all_active,
    guardArmed,     \* the defer! guard exists
    term_instances, \* the vector the guard holds
    releaseCount,   \* times the guard's block has run
    termReq,        \* termination_req.instance_ids
    bg,             \* the spawned termination task: not yet spawned, at the top
                    \* of its loop, awaiting a reply, finished or dropped
    termCalls,      \* terminate_instances calls made by the task (at most
                    \* MaxTermCalls are counted)
    lastTermIds,    \* instance ids of the last terminate call
    lastTermOutcome,\* outcome of the last terminate call that was answered
    runtimeAlive,   \* the runtime built by #[tokio::main] still exists
    cancelCalls,    \* cancel_spot_instance_requests calls
    cancelIds,      \* request ids of the cancel call
    machines,       \* machine set name -> Vec<Machine>
    all_ready,
    lastComplete,   \* ids fully described in the latest describe_instances round
    desc_ids,       \* desc_req.instance_ids
    groupsLeft,     \* keys of machines the setup loop has not visited yet
    curGroup,       \* machine set whose par_iter_mut is running
    task,           \* per machine: state of its setup closure
    attempts,       \* per machine: times its setup closure was started
    errors,         \* the collected setup errors
    callbackCalls,  \* times the caller's closure f was called
    callbackArg,    \* the mapping f received
    lastSpot,       \* what the latest describe_spot_instance_requests round answered
    conn            \* one call of ssh::Session::connect: its address, key and progress

vars == <<descriptors, pc, phases, result, todo, setup_fns, id_to_name, spot_req_ids,
          envReq, resolved, finalResp, instances, all_active, guardArmed,
          term_instances, releaseCount, termReq, bg, termCalls, lastTermIds,
          lastTermOutcome, runtimeAlive, cancelCalls, cancelIds, machines,
          all_ready, lastComplete, desc_ids, groupsLeft, curGroup, task, attempts,
          errors, callbackCalls, callbackArg, lastSpot, conn>>

submitVars == <<todo, setup_fns, id_to_name, spot_req_ids>>
resolveVars == <<resolved, finalResp, instances, all_active>>
guardVars == <<guardArmed, term_instances>>
releaseVars == <<releaseCount, termReq, bg>>
bgVars == <<termCalls, lastTermIds, lastTermOutcome, runtimeAlive>>
cancelVars == <<cancelCalls, cancelIds>>
readyVars == <<machines, all_ready, lastComplete, desc_ids>>
setupVars == <<groupsLeft, curGroup, task, attempts, errors>>
callbackVars == <<callbackCalls, callbackArg>>

-----------------------------------------------------------------------------
\* Results and errors.

Value(kind, group, ip) == [kind |-> kind, group |-> group, ip |-> ip]
Running == Value("Running", "", None)
OkResult == Value("Ok", "", None)
Err(kind) == Value(kind, "", None)
SetupErr(kind, group, ip) == Value(kind, group, ip)
SetupErrKinds == {"ConnectionError", "SetupRoutineError"}

\* No call of Session::connect is being followed.
NoConnect == [acceptAt |-> {}, handshake |-> FALSE, key |-> "right",
              i |-> 0, tries |-> 0, status |-> "idle"]

-----------------------------------------------------------------------------
Init ==
    /\ descriptors \in UNION {[S -> 1..MaxCount] : S \in SUBSET GroupNames}
    /\ pc = "provision"
    /\ phases = <<"provision">>
    /\ result = Running
    /\ todo = DOMAIN descriptors
    /\ setup_fns = {}
    /\ id_to_name = << >>
    /\ spot_req_ids = {}
    /\ envReq = << >>
    /\ resolved = FALSE
    /\ finalResp = << >>
    /\ instances = {}
    /\ all_active = FALSE
    /\ guardArmed = FALSE
    /\ term_instances = {}
    /\ releaseCount = 0
    /\ termReq = {}
    /\ bg = "none"
    /\ termCalls = 0
    /\ lastTermIds = {}
    /\ lastTermOutcome = "none"
    /\ runtimeAlive = TRUE
    /\ cancelCalls = 0
    /\ cancelIds = {}
    /\ machines = << >>
    /\ all_ready = FALSE
    /\ lastComplete = {}
    /\ desc_ids = None
    /\ groupsLeft = {}
    /\ curGroup = ""
    /\ task = << >>
    /\ attempts = << >>
    /\ errors = << >>
    /\ callbackCalls = 0
    /\ callbackArg = << >>
    /\ lastSpot = "none"
    /\ conn = NoConnect

-----------------------------------------------------------------------------
\* The guard's block (defer!): it empties term_instances into the terminate
\* request and spawns the termination task.
ReleaseIds(held) == held

Release ==
    /\ releaseCount' = releaseCount + 1
    /\ termReq' = ReleaseIds(term_instances)
    /\ term_instances' = {}
    /\ bg' = "spawned"
    /\ UNCHANGED guardArmed

\* run moves on to its next phase.
Goto(phase) ==
    /\ pc' = phase
    /\ phases' = Append(phases, phase)

\* run returns res, or unwinds: the locals are dropped, the guard among them
\* once it exists.
Exit(res) ==
    /\ pc' = "done"
    /\ UNCHANGED phases
    /\ result' = res
    /\ IF guardArmed THEN Release ELSE UNCHANGED <<guardVars, releaseVars>>

-----------------------------------------------------------------------------
\* Provisioning: security group, its two ingress rules, the key pair and the
\* temporary key file. Any `?` returns the error; the expect on a missing
\* group id or key material unwinds.
Provision(outcome) ==
    /\ pc = "provision"
    /\ CASE outcome = "ok" ->
              /\ Goto("submit")
              /\ UNCHANGED <<result, guardVars, releaseVars>>
         [] outcome = "err" -> Exit(Err("ProvisioningError"))
         [] outcome = "panic" -> Exit(Err("Panic"))
    /\ UNCHANGED <<descriptors, conn, lastSpot, submitVars, envReq, resolveVars, bgVars,
                   cancelVars, readyVars, setupVars, callbackVars>>

\* The request ids the control plane creates for one request_spot_instances
\* call asking for `number` instances of machine set `name`.
NewRequests(name, number) == {Sir(name, k) : k \in 1..number}

\* One round of `for (name, (setup, number)) in self.descriptors`. The
\* response either is an error, or lists the new requests, or carries no
\* list at all (spot_instance_requests is None), and then nothing is recorded.
SubmitGroup(name, outcome) ==
    /\ pc = "submit"
    /\ name \in todo
    /\ todo' = todo \ {name}
    /\ setup_fns' = setup_fns \cup {name}
    /\ CASE outcome = "err" ->
              /\ Exit(Err("RequestSubmissionError"))
              /\ UNCHANGED <<id_to_name, spot_req_ids, envReq>>
         [] outcome = "some" ->
              /\ envReq' = [r \in DOMAIN envReq \cup NewRequests(name, descriptors[name]) |->
                              IF r \in DOMAIN envReq THEN envReq[r] ELSE "open"]
              /\ spot_req_ids' = spot_req_ids \cup NewRequests(name, descriptors[name])
              /\ id_to_name' = [r \in DOMAIN id_to_name \cup NewRequests(name, descriptors[name]) |->
                                  IF r \in DOMAIN id_to_name THEN id_to_name[r] ELSE name]
              /\ UNCHANGED <<pc, phases, result, guardVars, releaseVars>>
         [] outcome = "none" ->
              /\ envReq' = [r \in DOMAIN envReq \cup NewRequests(name, descriptors[name]) |->
                              IF r \in DOMAIN envReq THEN envReq[r] ELSE "open"]
              /\ UNCHANGED <<id_to_name, spot_req_ids, pc, phases, result, guardVars, releaseVars>>
    /\ UNCHANGED <<descriptors, conn, lastSpot, resolveVars, bgVars, cancelVars, readyVars,
                   setupVars, callbackVars>>

\* The submission loop has visited every machine set; the describe request
\* is built from spot_req_ids.
SubmitDone ==
    /\ pc = "submit"
    /\ todo = {}
    /\ Goto("resolve")
    /\ UNCHANGED <<descriptors, conn, lastSpot, result, submitVars, envReq, resolveVars,
                   guardVars, releaseVars, bgVars, cancelVars, readyVars,
                   setupVars, callbackVars>>

\* Control plane: an open spot request is fulfilled (an instance is launched
\* for it) or ends in a state other than active.
EnvFulfil(r) ==
    /\ pc \in {"submit", "resolve"}
    /\ r \in DOMAIN envReq
    /\ envReq[r] = "open"
    /\ envReq' = [envReq EXCEPT ![r] = "active"]
    /\ UNCHANGED <<descriptors, conn, lastSpot, pc, phases, result, submitVars, resolveVars, guardVars,
                   releaseVars, bgVars, cancelVars, readyVars, setupVars,
                   callbackVars>>

EnvReject(r) ==
    /\ pc \in {"submit", "resolve"}
    /\ r \in DOMAIN envReq
    /\ envReq[r] = "open"
    /\ envReq' = [envReq EXCEPT ![r] = "failed"]
    /\ UNCHANGED <<descriptors, conn, lastSpot, pc, phases, result, submitVars, resolveVars, guardVars,
                   releaseVars, bgVars, cancelVars, readyVars, setupVars,
                   callbackVars>>

\* Instances the control plane has launched for this run's spot requests.
Launched == {Iid(r) : r \in {q \in DOMAIN envReq : envReq[q] = "active"}}

-----------------------------------------------------------------------------
\* Resolution polling.

\* describe_spot_instance_requests for spot_req_ids: one record per request;
\* an active request in `lag` is reported without its instance id yet.
DescribeSpot(lag) ==
    [r \in spot_req_ids |->
        [spot_instance_request_id |-> r,
         state |-> envReq[r],
         instance_id |-> IF envReq[r] = "active" /\ r \notin lag THEN Iid(r) ELSE None]]

\* AnyPending as it would be without the test of the instance id.
AnyPending_OpenOnly(resp) == \E r \in DOMAIN resp : resp[r].state = "open"

AnyPending(resp) ==
    \E r \in DOMAIN resp :
        \/ resp[r].state = "open"
        \/ resp[r].state = "active" /\ resp[r].instance_id = None

ActiveIn(resp) == {r \in DOMAIN resp : resp[r].state = "active"}

\* all_active as it would be if no record ever reset it.
AllActiveOf_Stuck(resp) == TRUE

\* all_active: set to true before the filter_map, to false by every record
\* whose state is not active.
AllActiveOf(resp) == \A r \in DOMAIN resp : resp[r].state = "active"

\* instances: the instance ids of the active records.
InstancesOf(resp) == {resp[r].instance_id : r \in ActiveIn(resp)}

\* id_to_name as it would be if every instance id were filed under the name
\* of one and the same request.
RenameIds_OneName(map, resp) ==
    [x \in (DOMAIN map \ ActiveIn(resp)) \cup InstancesOf(resp) |->
        IF x \in InstancesOf(resp)
        THEN map[CHOOSE r \in ActiveIn(resp) : TRUE]
        ELSE map[x]]

\* id_to_name: each active request id is removed and its name filed under
\* the instance id.
RenameIds(map, resp) ==
    [x \in (DOMAIN map \ ActiveIn(resp)) \cup InstancesOf(resp) |->
        IF x \in InstancesOf(resp)
        THEN map[CHOOSE r \in ActiveIn(resp) : resp[r].instance_id = x]
        ELSE map[x]]

\* The guard's vector as it would be if one id were lost on the way.
GuardIds_DropOne(ids) == IF ids = {} THEN ids ELSE ids \ {CHOOSE i \in ids : TRUE}

\* let mut term_instances = instances.clone();
GuardIds(ids) == ids

\* The control plane's answer of a round has a request still pending.
EnvPending(lag) == \E r \in spot_req_ids : envReq[r] = "open" \/ r \in lag

\* The test of the error message as it would be if it never matched.
NotYetExisting_Never(outcome) == FALSE

\* msg.contains("The spot instance request ID") && msg.contains("does not exist")
NotYetExisting(outcome) == outcome = "not_exist"

\* The phase that follows the resolution loop.
AfterResolve_Ready == "ready"

AfterResolve == "cancel"

ResolvePoll(outcome, lag) ==
    /\ pc = "resolve"
    /\ lag \subseteq {r \in spot_req_ids : envReq[r] = "active"}
    /\ outcome # "some" => lag = {}
    /\ CASE outcome \in {"not_exist", "fatal"} ->
              /\ lastSpot' = outcome
              /\ IF NotYetExisting(outcome)
                 THEN \* `continue`: poll again
                      UNCHANGED <<pc, phases, result, id_to_name, resolveVars,
                                  guardVars, releaseVars>>
                 ELSE /\ Exit(Err("ResolutionPollingError"))
                      /\ UNCHANGED <<id_to_name, resolveVars>>
         [] outcome = "none" ->
              \* a response without a list: poll again
              /\ lastSpot' = "no_list"
              /\ UNCHANGED <<pc, phases, result, id_to_name, resolveVars, guardVars, releaseVars>>
         [] outcome = "some" ->
              /\ lastSpot' = IF EnvPending(lag) THEN "pending" ELSE "complete"
              /\ IF AnyPending(DescribeSpot(lag))
                 THEN UNCHANGED <<pc, phases, result, id_to_name, resolveVars, guardVars, releaseVars>>
                 ELSE /\ all_active' = AllActiveOf(DescribeSpot(lag))
                      /\ instances' = InstancesOf(DescribeSpot(lag))
                      /\ id_to_name' = RenameIds(id_to_name, DescribeSpot(lag))
                      /\ resolved' = TRUE
                      /\ finalResp' = DescribeSpot(lag)
                      /\ guardArmed' = TRUE
                      /\ term_instances' = GuardIds(instances')
                      /\ Goto(AfterResolve)
                      /\ UNCHANGED <<result, releaseVars>>
    /\ UNCHANGED <<descriptors, conn, todo, setup_fns, spot_req_ids, envReq, bgVars,
                   cancelVars, readyVars, setupVars, callbackVars>>

\* cancel_spot_instance_requests for the submitted request ids; its error is
\* logged and returned with `?`.
Cancel(outcome) ==
    /\ pc = "cancel"
    /\ cancelCalls' = cancelCalls + 1
    /\ cancelIds' = spot_req_ids
    /\ CASE outcome = "ok" ->
              /\ Goto("ready")
              /\ UNCHANGED <<result, guardVars, releaseVars>>
         [] outcome = "err" -> Exit(Err("CancelError"))
    /\ UNCHANGED <<descriptors, conn, lastSpot, submitVars, envReq, resolveVars, bgVars,
                   readyVars, setupVars, callbackVars>>

-----------------------------------------------------------------------------
\* Readiness polling.

\* One rusoto_ec2::Instance of a describe_instances response: the fields in
\* `present` are Some, the others None.
FieldOf(f, i, present) == IF f \in present THEN <<f, i[2], i[3]>> ELSE None

InstanceRecord(i, present) ==
    [instance_id |-> IF "instance_id" \in present THEN i ELSE None,
     instance_type |-> FieldOf("instance_type", i, present),
     private_ip_address |-> FieldOf("private_ip", i, present),
     public_dns_name |-> FieldOf("public_dns", i, present),
     public_ip_address |-> FieldOf("public_ip", i, present)]

\* The instances of a response: those in `seen`, in a fixed order, the ones
\* in `complete` with every field, the others without the field `missing`.
DescribeInstances(seen, complete, missing) ==
    LET ids == SelectSeq(AllIidSeq, LAMBDA i : i \in seen)
    IN  [n \in DOMAIN ids |->
            InstanceRecord(ids[n], IF ids[n] \in complete THEN Fields
                                   ELSE Fields \ {missing})]

\* The pattern of the match: all five fields are Some.
Matches(rec) ==
    /\ rec.instance_id # None
    /\ rec.instance_type # None
    /\ rec.private_ip_address # None
    /\ rec.public_dns_name # None
    /\ rec.public_ip_address # None

MakeMachine(rec) ==
    [ssh |-> None,
     instance_type |-> rec.instance_type,
     private_ip |-> rec.private_ip_address,
     public_dns |-> rec.public_dns_name,
     public_ip |-> rec.public_ip_address]

\* machines.entry(name).or_insert_with(Vec::new).push(machine)
Push(ms, name, m) ==
    [g \in DOMAIN ms \cup {name} |->
        IF g = name
        THEN (IF name \in DOMAIN ms THEN Append(ms[name], m) ELSE <<m>>)
        ELSE ms[g]]

\* The machines as they would be if a round did not start from scratch.
ClearMachines_Keep(ms) == ms

\* machines.clear()
ClearMachines(ms) == << >>

\* The two nested for loops over the reservations and their instances.
RECURSIVE BuildMachines(_, _, _)
BuildMachines(ms, recs, names) ==
    IF recs = << >> THEN ms
    ELSE BuildMachines(
            IF Matches(Head(recs))
            THEN Push(ms, names[Head(recs).instance_id], MakeMachine(Head(recs)))
            ELSE ms,
            Tail(recs), names)

\* all_ready after the round: set to true before the call, to false by every
\* instance that does not match.
AllReadyOf(recs) == \A n \in DOMAIN recs : Matches(recs[n])

ReadyPoll(outcome, seen, complete, missing) ==
    /\ pc = "ready"
    /\ ~all_ready
    /\ seen \subseteq instances
    /\ complete \subseteq seen
    /\ (outcome # "some" => seen = {})
    /\ (seen = complete => missing = "public_ip")
    /\ desc_ids' = Some(instances)
    /\ CASE outcome = "err" ->
              /\ machines' = ClearMachines(machines)
              /\ all_ready' = TRUE
              /\ lastComplete' = {}
              /\ Exit(Err("ReadinessPollingError"))
         [] outcome = "none" ->
              \* reservations is None: nothing is built, all_ready stays true
              /\ machines' = ClearMachines(machines)
              /\ all_ready' = TRUE
              /\ lastComplete' = {}
              /\ UNCHANGED <<pc, phases, result, guardVars, releaseVars>>
         [] outcome = "some" ->
              /\ machines' = BuildMachines(ClearMachines(machines),
                                 DescribeInstances(seen, complete, missing), id_to_name)
              /\ all_ready' = AllReadyOf(DescribeInstances(seen, complete, missing))
              /\ lastComplete' = complete
              /\ UNCHANGED <<pc, phases, result, guardVars, releaseVars>>
    /\ UNCHANGED <<descriptors, conn, lastSpot, submitVars, envReq, resolveVars, bgVars,
                   cancelVars, setupVars, callbackVars>>

-----------------------------------------------------------------------------
\* Parallel setup and the callback.

\* The setup gate as it would be without the test of all_active.
SetupGateOpen_Always(active) == TRUE

\* if all_active
SetupGateOpen(active) == active

\* errors.into_iter().next().map(|e| Err(e)).unwrap_or(Ok(()))
FinalResult(errs) == IF errs = << >> THEN OkResult ELSE Head(errs)

\* The readiness loop has ended: either the setup loop starts, or run goes
\* straight to its last line.
SetupGate ==
    /\ pc = "ready"
    /\ all_ready
    /\ IF SetupGateOpen(all_active)
       THEN /\ Goto("setup")
            /\ groupsLeft' = DOMAIN machines
            /\ task' = [g \in DOMAIN machines |-> [k \in DOMAIN machines[g] |-> "todo"]]
            /\ attempts' = [g \in DOMAIN machines |-> [k \in DOMAIN machines[g] |-> 0]]
            /\ UNCHANGED <<result, guardVars, releaseVars, curGroup, errors>>
       ELSE /\ Exit(FinalResult(errors))
            /\ UNCHANGED setupVars
    /\ UNCHANGED <<descriptors, conn, lastSpot, submitVars, envReq, resolveVars, bgVars,
                   cancelVars, readyVars, callbackVars>>

\* The loop over the machine sets as it would be if it took the next set
\* without waiting for the closures of the one before.
SetupBeginGroup_NoWait(name) ==
    /\ pc = "setup"
    /\ name \in groupsLeft
    /\ name \in setup_fns
    /\ name # curGroup
    /\ curGroup' = name
    /\ UNCHANGED <<descriptors, conn, lastSpot, pc, phases, result, submitVars, envReq, resolveVars,
                   guardVars, releaseVars, bgVars, cancelVars, readyVars,
                   groupsLeft, task, attempts, errors, callbackVars>>

\* for (name, machines) in &mut machines: the next machine set is taken and
\* its par_iter_mut starts.
SetupBeginGroup(name) ==
    /\ pc = "setup"
    /\ curGroup = ""
    /\ name \in groupsLeft
    /\ name \in setup_fns
    /\ curGroup' = name
    /\ UNCHANGED <<descriptors, conn, lastSpot, pc, phases, result, submitVars, envReq, resolveVars,
                   guardVars, releaseVars, bgVars, cancelVars, readyVars,
                   groupsLeft, task, attempts, errors, callbackVars>>

\* The closure of one machine starts: the address is parsed and
\* ssh::Session::connect is called.
TaskConnect(k, ok) ==
    /\ pc = "setup"
    /\ curGroup # ""
    /\ k \in DOMAIN task[curGroup]
    /\ task[curGroup][k] = "todo"
    /\ attempts' = [attempts EXCEPT ![curGroup][k] = @ + 1]
    /\ task' = [task EXCEPT ![curGroup][k] = IF ok THEN "connected" ELSE "ConnectionError"]
    /\ UNCHANGED <<descriptors, conn, lastSpot, pc, phases, result, submitVars, envReq, resolveVars,
                   guardVars, releaseVars, bgVars, cancelVars, readyVars,
                   groupsLeft, curGroup, errors, callbackVars>>

\* The closure calls the machine set's setup routine on the session.
TaskSetup(k, ok) ==
    /\ pc = "setup"
    /\ curGroup # ""
    /\ k \in DOMAIN task[curGroup]
    /\ task[curGroup][k] = "connected"
    /\ task' = [task EXCEPT ![curGroup][k] = IF ok THEN "ok" ELSE "SetupRoutineError"]
    /\ UNCHANGED <<descriptors, conn, lastSpot, pc, phases, result, submitVars, envReq, resolveVars,
                   guardVars, releaseVars, bgVars, cancelVars, readyVars,
                   groupsLeft, curGroup, attempts, errors, callbackVars>>

\* The collected errors as they would be if only the first failure of a
\* machine set were kept.
GroupErrors_FirstOnly(states, name, ms) ==
    LET failed == SelectSeq([k \in DOMAIN states |-> k],
                            LAMBDA k : states[k] \in SetupErrKinds)
    IN  IF failed = << >> THEN << >>
        ELSE <<SetupErr(states[failed[1]], name, ms[failed[1]].public_ip)>>

\* .filter_map(Result::err) over the closures' results, in the order of the
\* machines.
GroupErrors(states, name, ms) ==
    LET failed == SelectSeq([k \in DOMAIN states |-> k],
                            LAMBDA k : states[k] \in SetupErrKinds)
    IN  [n \in DOMAIN failed |->
            SetupErr(states[failed[n]], name, ms[failed[n]].public_ip)]

\* errors.par_extend(...) returns once every closure of the machine set has
\* returned.
SetupEndGroup ==
    /\ pc = "setup"
    /\ curGroup # ""
    /\ \A k \in DOMAIN task[curGroup] : task[curGroup][k] \in SetupErrKinds \cup {"ok"}
    /\ errors' = errors \o GroupErrors(task[curGroup], curGroup, machines[curGroup])
    /\ groupsLeft' = groupsLeft \ {curGroup}
    /\ curGroup' = ""
    /\ UNCHANGED <<descriptors, conn, lastSpot, pc, phases, result, submitVars, envReq, resolveVars,
                   guardVars, releaseVars, bgVars, cancelVars, readyVars,
                   task, attempts, callbackVars>>

\* if errors.is_empty()
CallbackGateOpen(errs) == errs = << >>

\* The setup loop has visited every machine set.
SetupFinish ==
    /\ pc = "setup"
    /\ curGroup = ""
    /\ groupsLeft = {}
    /\ IF CallbackGateOpen(errors)
       THEN /\ Goto("callback")
            /\ UNCHANGED <<result, guardVars, releaseVars>>
       ELSE Exit(FinalResult(errors))
    /\ UNCHANGED <<descriptors, conn, lastSpot, submitVars, envReq, resolveVars, bgVars,
                   cancelVars, readyVars, setupVars, callbackVars>>

\* f(machines): the caller's closure returns Ok or an error, or unwinds.
Callback(outcome) ==
    /\ pc = "callback"
    /\ callbackCalls' = callbackCalls + 1
    /\ callbackArg' = machines
    /\ CASE outcome = "ok" -> Exit(FinalResult(errors))
         [] outcome = "err" -> Exit(Err("CallbackError"))
         [] outcome = "panic" -> Exit(Err("Panic"))
    /\ UNCHANGED <<descriptors, conn, lastSpot, submitVars, envReq, resolveVars, bgVars,
                   cancelVars, readyVars, setupVars>>

-----------------------------------------------------------------------------
\* The termination task and the runtime.

\* The count of the terminate calls, kept up to MaxTermCalls.
Counted(n) == IF n < MaxTermCalls THEN n + 1 ELSE n

\* The condition of `while let Err(e) = terminate_instances(...).await` is
\* evaluated: the task sends the terminate request and awaits the reply.
TerminateCall ==
    /\ bg = "spawned"
    /\ runtimeAlive
    /\ termCalls' = Counted(termCalls)
    /\ lastTermIds' = termReq
    /\ bg' = "awaiting"
    /\ UNCHANGED <<descriptors, conn, lastSpot, pc, phases, result, submitVars, envReq, resolveVars,
                   guardVars, releaseCount, termReq, lastTermOutcome, runtimeAlive,
                   cancelVars, readyVars, setupVars, callbackVars>>

\* The reply as it would be handled if a failure that is not retried were
\* handed to the caller.
TerminateReply_FailsRun(outcome) ==
    /\ bg = "awaiting"
    /\ runtimeAlive
    /\ lastTermOutcome' = outcome
    /\ bg' = IF outcome = "ok" THEN "finished" ELSE "spawned"
    /\ result' = IF outcome = "other" THEN Err("CleanupError") ELSE result
    /\ UNCHANGED <<descriptors, conn, lastSpot, pc, phases, submitVars, envReq,
                   resolveVars, guardVars, releaseCount, termReq, termCalls,
                   lastTermIds, runtimeAlive, cancelVars, readyVars, setupVars,
                   callbackVars>>

\* The reply arrives: Ok ends the loop; after an error the loop body logs and
\* the loop calls again, whether or not the message is one of the two
\* retried ones.
TerminateReply(outcome) ==
    /\ bg = "awaiting"
    /\ runtimeAlive
    /\ lastTermOutcome' = outcome
    /\ bg' = IF outcome = "ok" THEN "finished" ELSE "spawned"
    /\ UNCHANGED <<descriptors, conn, lastSpot, pc, phases, result, submitVars, envReq, resolveVars,
                   guardVars, releaseCount, termReq, termCalls, lastTermIds,
                   runtimeAlive, cancelVars, readyVars, setupVars, callbackVars>>

\* run has returned: the runtime #[tokio::main] built is dropped, and a task
\* that has not finished is dropped with it, before its first call or with a
\* call in flight.
RuntimeShutdown ==
    /\ pc = "done"
    /\ runtimeAlive
    /\ runtimeAlive' = FALSE
    /\ bg' = IF bg \in {"spawned", "awaiting"} THEN "killed" ELSE bg
    /\ UNCHANGED <<descriptors, conn, lastSpot, pc, phases, result, submitVars, envReq, resolveVars,
                   guardVars, releaseCount, termReq, termCalls, lastTermIds,
                   lastTermOutcome, cancelVars, readyVars, setupVars,
                   callbackVars>>

-----------------------------------------------------------------------------
\* ssh::Session::connect (src/src/ssh.rs), followed on its own: the address
\* accepts the n-th TCP connection iff n is in acceptAt, the handshake
\* succeeds or not, the key is the right one or not.

\* The guard of the retry arm: Err(_) if i <= 3
RetryAllowed_Less(i) == i < RetryLimit

RetryAllowed(i) == i <= RetryLimit

\* One round of the loop around TcpStream::connect.
TcpConnect ==
    /\ conn.status = "connecting"
    /\ conn' = IF (conn.tries + 1) \in conn.acceptAt
               THEN [conn EXCEPT !.tries = @ + 1, !.status = "tcp"]
               ELSE IF RetryAllowed(conn.i)
                    THEN [conn EXCEPT !.tries = @ + 1, !.i = @ + 1]
                    ELSE [conn EXCEPT !.tries = @ + 1, !.status = "ConnectionError"]
    /\ UNCHANGED <<descriptors, lastSpot, pc, phases, result, submitVars, envReq,
                   resolveVars, guardVars, releaseVars, bgVars, cancelVars,
                   readyVars, setupVars, callbackVars>>

\* ssh2::Session::new, set_tcp_stream and handshake.
Handshake ==
    /\ conn.status = "tcp"
    /\ conn' = [conn EXCEPT !.status = IF conn.handshake THEN "handshaken"
                                       ELSE "HandshakeError"]
    /\ UNCHANGED <<descriptors, lastSpot, pc, phases, result, submitVars, envReq,
                   resolveVars, guardVars, releaseVars, bgVars, cancelVars,
                   readyVars, setupVars, callbackVars>>

\* userauth_pubkey_file with the key file, then Ok(Session {..}).
Authenticate ==
    /\ conn.status = "handshaken"
    /\ conn' = [conn EXCEPT !.status = IF conn.key = "right" THEN "session"
                                       ELSE "AuthenticationError"]
    /\ UNCHANGED <<descriptors, lastSpot, pc, phases, result, submitVars, envReq,
                   resolveVars, guardVars, releaseVars, bgVars, cancelVars,
                   readyVars, setupVars, callbackVars>>

InitConnect ==
    /\ conn \in [acceptAt : SUBSET (1..MaxProbe), handshake : BOOLEAN,
                 key : {"right", "wrong"}, i : {0}, tries : {0},
                 status : {"connecting"}]
    /\ descriptors = << >>
    /\ pc = "setup"
    /\ phases = << >>
    /\ result = Running
    /\ todo = {}
    /\ setup_fns = {}
    /\ id_to_name = << >>
    /\ spot_req_ids = {}
    /\ envReq = << >>
    /\ resolved = FALSE
    /\ finalResp = << >>
    /\ instances = {}
    /\ all_active = FALSE
    /\ guardArmed = FALSE
    /\ term_instances = {}
    /\ releaseCount = 0
    /\ termReq = {}
    /\ bg = "none"
    /\ termCalls = 0
    /\ lastTermIds = {}
    /\ lastTermOutcome = "none"
    /\ runtimeAlive = TRUE
    /\ cancelCalls = 0
    /\ cancelIds = {}
    /\ machines = << >>
    /\ all_ready = FALSE
    /\ lastComplete = {}
    /\ desc_ids = None
    /\ groupsLeft = {}
    /\ curGroup = ""
    /\ task = << >>
    /\ attempts = << >>
    /\ errors = << >>
    /\ callbackCalls = 0
    /\ callbackArg = << >>
    /\ lastSpot = "none"

NextConnect == TcpConnect \/ Handshake \/ Authenticate

SpecConnect == InitConnect /\ [][NextConnect]_vars

-----------------------------------------------------------------------------
Next ==
    \/ \E outcome \in {"ok", "err", "panic"} : Provision(outcome)
    \/ \E name \in GroupNames, outcome \in {"err", "some", "none"} : SubmitGroup(name, outcome)
    \/ SubmitDone
    \/ \E r \in DOMAIN envReq : EnvFulfil(r)
    \/ \E r \in DOMAIN envReq : EnvReject(r)
    \/ /\ pc = "resolve"
       /\ \E outcome \in {"not_exist", "fatal", "none", "some"} :
             \E lag \in (IF outcome = "some"
                         THEN SUBSET {r \in spot_req_ids : envReq[r] = "active"}
                         ELSE {{}}) :
                ResolvePoll(outcome, lag)
    \/ \E outcome \in {"ok", "err"} : Cancel(outcome)
    \/ /\ pc = "ready"
       /\ ~all_ready
       /\ \E outcome \in {"err", "none", "some"} :
             \E seen \in (IF outcome = "some" THEN SUBSET instances ELSE {{}}) :
                \E complete \in SUBSET seen :
                   \E missing \in (IF seen = complete THEN {"public_ip"} ELSE Fields) :
                      ReadyPoll(outcome, seen, complete, missing)
    \/ SetupGate
    \/ \E name \in GroupNames : SetupBeginGroup(name)
    \/ \E k \in 1..MaxCount, ok \in BOOLEAN : TaskConnect(k, ok)
    \/ \E k \in 1..MaxCount, ok \in BOOLEAN : TaskSetup(k, ok)
    \/ SetupEndGroup
    \/ SetupFinish
    \/ \E outcome \in {"ok", "err", "panic"} : Callback(outcome)
    \/ TerminateCall
    \/ \E outcome \in {"ok", "transient", "other"} : TerminateReply(outcome)
    \/ RuntimeShutdown

Spec == Init /\ [][Next]_vars

-----------------------------------------------------------------------------
\* Vocabulary of the properties.

\* Requests the run recorded that are in a state other than active, and the
\* instance ids of those that are active (their instances are launched).
RejectedReqs == {r \in spot_req_ids : envReq[r] # "active"}
ResolvedActive == {Iid(r) : r \in {q \in spot_req_ids : envReq[q] = "active"}}

Entered(phase) == \E n \in DOMAIN phases : phases[n] = phase

\* The machines of the setup loop, as <<machine set, index>>.
Tasks == {<<g, k>> \in GroupNames \X (1..MaxCount) : g \in DOMAIN task /\ k \in DOMAIN task[g]}
FailedTasks == {t \in Tasks : task[t[1]][t[2]] \in SetupErrKinds}
SetupEnded == Entered("setup") /\ pc \in {"callback", "done"}

PhaseErrorKinds == {"ProvisioningError", "RequestSubmissionError",
                    "ResolutionPollingError", "ReadinessPollingError"}

\* C1: the callback is invoked at most once, and a finished run has invoked
\* it exactly when every polled spot request resolved active and the setup
\* loop ran with every machine's connect and setup routine succeeding.
C1_CallbackIffAllSetupsClean ==
    /\ callbackCalls <= 1
    /\ pc = "done" =>
          (callbackCalls = 1 <=>
              /\ resolved
              /\ RejectedReqs = {}
              /\ Entered("setup")
              /\ \A t \in Tasks : task[t[1]][t[2]] = "ok")

C1_Witness ==
    /\ pc = "done"
    /\ callbackCalls = 1
    /\ Cardinality(Tasks) >= 3
    /\ Cardinality(DOMAIN task) = 2

\* C2: whenever run has exited, by whatever path, the guard's release block
\* has run exactly once.
C2_ReleaseOnEveryExit == pc = "done" => releaseCount = 1

\* C3: after a failed run every instance launched for a spot request the run
\* submitted is among the ids of the terminate request the run issued.
C3_NoLaunchedInstanceLeft ==
    (pc = "done" /\ result.kind # "Ok") =>
        \A i \in Launched \cap ResolvedActive : releaseCount >= 1 /\ i \in termReq

\* C4: the guard holds exactly the resolved-active instance ids from arming
\* to release, and the terminate request and every terminate call carry
\* exactly that set.
C4_TerminateCarriesResolvedActive ==
    /\ guardArmed => resolved
    /\ (guardArmed /\ releaseCount = 0) => term_instances = ResolvedActive
    /\ releaseCount >= 1 => (guardArmed /\ termReq = ResolvedActive)
    /\ termCalls >= 1 => (releaseCount = 1 /\ lastTermIds = ResolvedActive)

C4_Witness ==
    /\ termCalls >= 2
    /\ Cardinality(lastTermIds) >= 2
    /\ RejectedReqs # {}

\* C5: the result of a finished run is the callback's own result when every
\* setup succeeded, the first collected setup error when a setup failed, and
\* the error of provisioning, submission, resolution polling or readiness
\* polling when that phase failed; there is no other outcome.
C5_ResultIsCallbackSetupOrPhase ==
    (pc = "done" /\ result.kind # "Panic") =>
        \/ /\ callbackCalls = 1
           /\ FailedTasks = {}
           /\ result.kind \in {"Ok", "CallbackError"}
        \/ /\ callbackCalls = 0
           /\ errors # << >>
           /\ result = errors[1]
        \/ /\ callbackCalls = 0
           /\ result.kind \in PhaseErrorKinds

\* C6: a run in which a spot request resolved rejected returns an error.
C6_RejectedReturnsError ==
    (pc = "done" /\ resolved /\ RejectedReqs # {}) => result.kind # "Ok"

\* C7: once a spot request has resolved rejected, no setup closure is ever
\* started and the callback is never invoked, while the guard holds every
\* resolved-active instance id and, on exit, puts exactly those ids in the
\* terminate request it hands to the termination task.
C7_RejectedSkipsSetupKeepsCleanup ==
    (resolved /\ RejectedReqs # {}) =>
        /\ ~Entered("setup") /\ ~Entered("callback")
        /\ Tasks = {}
        /\ callbackCalls = 0
        /\ guardArmed
        /\ releaseCount = 0 => (pc # "done" /\ term_instances = ResolvedActive)
        /\ pc = "done" => (releaseCount = 1 /\ bg # "none" /\ termReq = ResolvedActive)
        /\ termCalls >= 1 => lastTermIds = ResolvedActive

C7_Witness ==
    /\ pc = "done"
    /\ RejectedReqs # {}
    /\ Cardinality(ResolvedActive) >= 2
    /\ termCalls >= 1
    /\ lastTermOutcome = "ok"

\* C8: every machine of every machine set has its setup closure started at
\* most once, and exactly once by the time the setup loop has ended, whatever
\* its siblings did; the collected errors then are exactly one error per
\* machine whose connect or setup routine failed.
C8_EveryInstanceAttemptedOnce ==
    /\ \A t \in Tasks : attempts[t[1]][t[2]] <= 1
    /\ SetupEnded =>
          /\ DOMAIN task = DOMAIN machines
          /\ \A g \in DOMAIN machines : DOMAIN task[g] = DOMAIN machines[g]
          /\ \A t \in Tasks :
                /\ attempts[t[1]][t[2]] = 1
                /\ task[t[1]][t[2]] \in SetupErrKinds \cup {"ok"}
          /\ Len(errors) = Cardinality(FailedTasks)
          /\ \A t \in FailedTasks :
                \E n \in DOMAIN errors :
                    errors[n] = SetupErr(task[t[1]][t[2]], t[1],
                                         machines[t[1]][t[2]].public_ip)
          /\ \A n \in DOMAIN errors :
                \E t \in FailedTasks :
                    errors[n] = SetupErr(task[t[1]][t[2]], t[1],
                                         machines[t[1]][t[2]].public_ip)

C8_Witness ==
    /\ pc = "done"
    /\ Len(errors) = 2
    /\ \E g \in DOMAIN task :
          /\ Len(task[g]) = 2
          /\ task[g][1] = "SetupRoutineError"
          /\ task[g][2] = "ok"
    /\ \E g \in DOMAIN task : task[g][1] = "ConnectionError"

\* C9: when every request of the plan was submitted and resolved active,
\* every setup succeeded and the callback was invoked, the mapping it got has
\* the plan's machine set names as keys and, under each, as many machines as
\* the plan asks for.
C9_MappingMatchesPlan ==
    (/\ callbackCalls = 1
     /\ \A g \in DOMAIN descriptors : NewRequests(g, descriptors[g]) \subseteq spot_req_ids
     /\ RejectedReqs = {}) =>
        /\ DOMAIN callbackArg = DOMAIN descriptors
        /\ \A g \in DOMAIN descriptors : Len(callbackArg[g]) = descriptors[g]

\* C10: every Machine the setup loop and the callback get was built from a
\* record of the final describe_instances round that had instance id,
\* instance type, private IP, public DNS name and public IP all present.
BuiltFromFinalRound(ms) ==
    \A g \in DOMAIN ms : \A k \in DOMAIN ms[g] :
        /\ ms[g][k].instance_type # None
        /\ ms[g][k].private_ip # None
        /\ ms[g][k].public_dns # None
        /\ ms[g][k].public_ip # None
        /\ \E i \in lastComplete :
              /\ ms[g][k] = MakeMachine(InstanceRecord(i, Fields))
              /\ id_to_name[i] = g

C10_OnlyCompleteMachinesReachCallback ==
    /\ pc \in {"setup", "callback"} => BuiltFromFinalRound(machines)
    /\ callbackCalls >= 1 => BuiltFromFinalRound(callbackArg)

C10_Witness ==
    /\ callbackCalls = 1
    /\ Cardinality(DOMAIN callbackArg) = 2
    /\ Cardinality(lastComplete) >= 3

\* C11: a failure of the cancel call is not fatal: it is never the result of
\* the run, and a run that made the cancel call goes on to readiness polling.
C11_CancelFailureNotFatal ==
    /\ result.kind # "CancelError"
    /\ (pc = "done" /\ cancelCalls >= 1) => Entered("ready")

\* C12: the termination task makes a further terminate call only after a
\* call that failed with a transient connectivity error; after a call that
\* succeeded or failed otherwise it makes none.
C12_RetryOnlyAfterTransient ==
    [][(bg = "spawned" /\ bg' = "awaiting") =>
           lastTermOutcome \in {"none", "transient"}]_vars

\* C13: a Machine whose setup succeeded holds a session, and so does every
\* Machine of the mapping the callback gets.
C13_MachinesCarrySession ==
    /\ \A t \in Tasks : task[t[1]][t[2]] = "ok" => machines[t[1]][t[2]].ssh # None
    /\ callbackCalls >= 1 =>
          \A g \in DOMAIN callbackArg : \A k \in DOMAIN callbackArg[g] :
              callbackArg[g][k].ssh # None

\* C14: Session::connect never makes more than RetryLimit + 2 = 5 TCP
\* connection attempts and is never left in its loop after the fifth; against
\* an address that has refused every attempt it never yields a session, and
\* when it returns its connection error it has made exactly 5 attempts.
RefusedSoFar == \A n \in 1..conn.tries : n \notin conn.acceptAt

C14_ConnectGivesUpAfterFiveAttempts ==
    /\ conn.tries <= RetryLimit + 2
    /\ conn.status = "connecting" => conn.tries < RetryLimit + 2
    /\ conn.status = "ConnectionError" => (RefusedSoFar /\ conn.tries = RetryLimit + 2)
    /\ (RefusedSoFar /\ conn.tries >= 1) => conn.status \in {"connecting", "ConnectionError"}

C14_Witness ==
    /\ conn.acceptAt = {}
    /\ conn.status = "ConnectionError"
    /\ conn.tries = 5
    /\ conn.i = 4

\* C15: the resolution loop is left only on a describe round in which no
\* request is open or active without an instance id; until such a round the
\* run stays in the loop, and the instance ids collected at the exit are the
\* ids of the active requests, none of them absent.
C15_ExitOnlyWithoutPending ==
    /\ lastSpot \in {"pending", "no_list", "not_exist"} => (pc = "resolve" /\ ~resolved)
    /\ Entered("cancel") => resolved
    /\ resolved =>
          /\ lastSpot = "complete"
          /\ DOMAIN finalResp = spot_req_ids
          /\ \A r \in spot_req_ids :
                /\ finalResp[r].state = envReq[r]
                /\ finalResp[r].state # "open"
                /\ finalResp[r].state = "active" => finalResp[r].instance_id = Iid(r)
          /\ None \notin instances
          /\ instances = ResolvedActive

C15_Witness ==
    /\ resolved
    /\ pc = "cancel"
    /\ Cardinality(instances) >= 2
    /\ RejectedReqs # {}

\* C16: every id in id_to_name is filed under the machine set its request
\* was submitted for, before and after the move from request id to instance
\* id; every Machine is filed under the machine set of its instance, and
\* every name used is a key of the plan.
SubmittedFor(id) == id[2]

FiledUnderOwnGroup(ms) ==
    \A g \in DOMAIN ms :
        /\ g \in DOMAIN descriptors
        /\ \A k \in DOMAIN ms[g] :
              \E i \in ResolvedActive :
                  /\ SubmittedFor(i) = g
                  /\ ms[g][k] = MakeMachine(InstanceRecord(i, Fields))

C16_GroupNamePreserved ==
    /\ \A x \in DOMAIN id_to_name :
          id_to_name[x] = SubmittedFor(x) /\ id_to_name[x] \in DOMAIN descriptors
    /\ ~resolved => spot_req_ids \subseteq DOMAIN id_to_name
    /\ resolved => ResolvedActive \subseteq DOMAIN id_to_name
    /\ FiledUnderOwnGroup(machines)
    /\ FiledUnderOwnGroup(callbackArg)

C16_Witness ==
    /\ callbackCalls = 1
    /\ Cardinality(DOMAIN callbackArg) = 2
    /\ \E g \in DOMAIN callbackArg : Len(callbackArg[g]) = 2

\* C17: every terminate call is made after run has returned, and nothing
\* that happens after the return, whatever the calls' outcomes, changes the
\* result run returned.
C17_TerminationNeverChangesResult ==
    /\ [](termCalls >= 1 => pc = "done")
    /\ [][pc = "done" => result' = result]_vars

C17_Witness ==
    /\ pc = "done"
    /\ result.kind = "Ok"
    /\ callbackCalls = 1
    /\ termCalls >= 2
    /\ lastTermOutcome = "other"

\* C18: the phases a run has entered are an initial part of provisioning,
\* submission, resolution polling, cancellation, readiness polling, setup,
\* callback, in that order; the run is in the last of them until it exits,
\* and the guard's release runs only at the exit, at most once.
PhaseOrder == <<"provision", "submit", "resolve", "cancel", "ready", "setup", "callback">>

C18_PhasesInOrder ==
    /\ Len(phases) \in 1..Len(PhaseOrder)
    /\ \A n \in DOMAIN phases : phases[n] = PhaseOrder[n]
    /\ pc # "done" => pc = phases[Len(phases)]
    /\ releaseCount >= 1 => pc = "done"
    /\ releaseCount <= 1

C18_Witness ==
    /\ pc = "done"
    /\ phases = PhaseOrder
    /\ releaseCount = 1
    /\ termCalls >= 1

\* C19: after a describe error saying the request id does not exist the run
\* is still polling and has not failed; after any other describe error the
\* run has ended with that error, having entered no later phase, and a run
\* that ended so has polled no further.
C19_OnlyNotExistIsTransient ==
    /\ lastSpot = "not_exist" => (pc = "resolve" /\ result = Running)
    /\ lastSpot = "fatal" =>
          /\ pc = "done"
          /\ result = Err("ResolutionPollingError")
          /\ phases = <<"provision", "submit", "resolve">>
          /\ ~resolved
          /\ cancelCalls = 0
          /\ machines = << >>
          /\ Tasks = {}
          /\ callbackCalls = 0
    /\ result.kind = "ResolutionPollingError" => lastSpot = "fatal"

C19_Witness ==
    /\ lastSpot = "fatal"
    /\ pc = "done"
    /\ Cardinality(spot_req_ids) >= 2
    /\ Launched # {}

\* C20: once the readiness loop has ended without an error, its final round
\* reported every resolved-active instance with all five fields, and machines
\* holds a Machine for each of them built from that round.
C20_ReadinessExitsWithEveryInstance ==
    (Entered("ready") /\ all_ready /\ result.kind # "ReadinessPollingError") =>
        /\ lastComplete = instances
        /\ \A i \in instances :
              \E g \in DOMAIN machines : \E k \in DOMAIN machines[g] :
                  machines[g][k] = MakeMachine(InstanceRecord(i, Fields))

\* C21: setup closures of machines in different machine sets run in parallel:
\* while a machine of one set is being set up, a machine of another set that
\* has not started can start; no set waits for another set's closures.
Started(t) == attempts[t[1]][t[2]] >= 1
Finished(t) == task[t[1]][t[2]] \in SetupErrKinds \cup {"ok"}
BeingSetUp(t) == Started(t) /\ ~Finished(t)
AllFinished(g) == \A k \in DOMAIN task[g] : Finished(<<g, k>>)
CanStart(t) == ENABLED (curGroup = t[1] /\ \E ok \in BOOLEAN : TaskConnect(t[2], ok))

C21_GroupsSetUpInParallel ==
    \A t, u \in Tasks :
        (t[1] # u[1] /\ BeingSetUp(u) /\ ~Started(t)) => CanStart(t)

\* C21, amended: the machine sets are set up one after another, and the
\* machines of one set in parallel: two sets both have started closures only
\* when one of them has all its closures finished, a machine cannot start
\* while a machine of another set is being set up, and it can start as soon
\* as a machine of its own set has, whatever that one is doing.
C21_SetsInTurnMachinesInParallel ==
    /\ \A t, u \in Tasks :
          (t[1] # u[1] /\ Started(t) /\ Started(u)) =>
              (AllFinished(t[1]) \/ AllFinished(u[1]))
    /\ \A t, u \in Tasks :
          (t[1] # u[1] /\ BeingSetUp(u) /\ ~Started(t)) => ~CanStart(t)
    /\ \A t, u \in Tasks :
          (t[1] = u[1] /\ Started(u) /\ ~Started(t)) => CanStart(t)

C21_Witness ==
    \E g \in DOMAIN task :
        /\ Len(task[g]) = 2
        /\ BeingSetUp(<<g, 1>>)
        /\ BeingSetUp(<<g, 2>>)
        /\ \E h \in DOMAIN task \ {g} : Len(task[h]) = 2 /\ AllFinished(h)

\* C22: in every run whose guard was armed, a terminate call carrying the
\* guard's instance ids reaches the control plane although run returns and
\* its runtime is shut down without joining the termination task. No call
\* can be made once the runtime is gone, so in a run that handed instances
\* to the task the call has been made by the time the runtime is shut down.
C22_TerminateDeliveredDespiteShutdown ==
    (guardArmed /\ releaseCount >= 1 /\ termReq # {} /\ ~runtimeAlive) =>
        (termCalls >= 1 /\ lastTermIds = termReq)

\* C23: whenever run has exited after recording at least one spot request,
\* a cancel call has been made with exactly the recorded request ids, also
\* when the exit is a submission error of a later machine set or a fatal
\* error of resolution polling; no cancel call carries any other ids.
C23_EverySubmittedRequestCancelled ==
    /\ cancelCalls >= 1 => cancelIds = spot_req_ids
    /\ (pc = "done" /\ spot_req_ids # {}) =>
          (cancelCalls >= 1 /\ cancelIds = spot_req_ids)

\* C24: no describe_instances call and no terminate_instances call is made
\* with an empty list of instance ids: when no request resolved active (all
\* rejected, or an empty plan) neither call is made.
C24_NoCallWithEmptyIdList ==
    /\ desc_ids # None => desc_ids # Some({})
    /\ termCalls >= 1 => lastTermIds # {}

====
